---- MODULE Spec2Model ----
(***************************************************************************)
(* The autolink plugin of packages/ckeditor5-link/src/autolink.js.         *)
(*                                                                         *)
(* The module has three parts: URL_REG_EXP and the two text predicates,    *)
(* as operators on texts; the document, the selection and the handlers of  *)
(* the plugin, as operators on the editor's state; and the state machine   *)
(* whose actions are what a user does (moving the caret, typing, pasting,  *)
(* Enter, Shift+Enter), each action running every handler the operation    *)
(* sets off.  The engine's model, the TextWatcher, getLastTextLine and     *)
(* link/utils are not part of autolink.js; they are modelled as far as     *)
(* the plugin uses them.                                                   *)
(* A second specification, TextSpec, draws a text and applies             *)
(* getUrlAtTextEnd, isSingleSpaceAtTheEnd or the typing path to it.        *)
(*                                                                         *)
(* A text is a sequence of one-character strings.  A position set is a set *)
(* of indices 1..Len(t)+1: index p stands between t[p-1] and t[p].  Every  *)
(* piece of URL_REG_EXP maps the set of positions where it may start to    *)
(* the set of positions where it may end, so the whole expression is       *)
(* evaluated as the nondeterministic automaton the RegExp engine explores  *)
(* by backtracking.                                                        *)
(***************************************************************************)
EXTENDS Integers, Sequences, FiniteSets, TLC

----------------------------------------------------------------------------
(* Characters and the character classes used by the regular expressions.   *)

LowerLetters ==
    <<"a","b","c","d","e","f","g","h","i","j","k","l","m",
      "n","o","p","q","r","s","t","u","v","w","x","y","z">>

UpperLetters ==
    <<"A","B","C","D","E","F","G","H","I","J","K","L","M",
      "N","O","P","Q","R","S","T","U","V","W","X","Y","Z">>

Digits == {"0","1","2","3","4","5","6","7","8","9"}

\* \s of the RegExp, as far as the characters of the model go.
Whitespace == {" ", "\t", "\n", "\r"}

\* The characters `.` of a RegExp does not match.
LineTerminators == {"\n", "\r"}

\* Members of the range ¡-￿.
HighChars == {"é", "ß"}

SeqRange(s) == {s[i] : i \in 1..Len(s)}

\* The `i` flag: letters are compared without case.
ToLower(c) ==
    IF \E i \in 1..Len(UpperLetters) : UpperLetters[i] = c
      THEN LowerLetters[CHOOSE i \in 1..Len(UpperLetters) : UpperLetters[i] = c]
      ELSE c

IsLetter(c) == ToLower(c) \in SeqRange(LowerLetters)

InClass(cls, c) ==
    CASE cls = "space"     -> c \in Whitespace                       \* \s
      [] cls = "nonspace"  -> c \notin Whitespace                    \* \S
      [] cls = "any"       -> c \notin LineTerminators               \* .
      [] cls = "digit"     -> c \in Digits                           \* \d
      [] cls = "1-9"       -> c \in Digits \ {"0"}
      [] cls = "0-1"       -> c \in {"0","1"}
      [] cls = "0-3"       -> c \in {"0","1","2","3"}
      [] cls = "0-4"       -> c \in {"0","1","2","3","4"}
      [] cls = "0-5"       -> c \in {"0","1","2","3","4","5"}
      [] cls = "host"      -> \/ c \in {"-", "_"}                    \* [-_a-z0-9¡-￿]
                              \/ IsLetter(c)
                              \/ c \in Digits
                              \/ c \in HighChars
      [] cls = "tld"       -> IsLetter(c) \/ c \in HighChars         \* [a-z¡-￿]
      [] cls = "dashes"    -> c \in {"-", "_"}                       \* [-_]
      [] cls = "pathstart" -> c \in {"/", "?", "#"}                  \* [/?#]
      [] cls = "word"      -> IsLetter(c) \/ c \in Digits \/ c = "_" \* \w
      [] cls = "nonword"   -> ~(IsLetter(c) \/ c \in Digits \/ c = "_") \* \W

----------------------------------------------------------------------------
(* Building blocks: each maps start positions S in text t to end positions.*)

\* One character of class cls.
One(t, S, cls) == {p + 1 : p \in {q \in S : q <= Len(t) /\ InClass(cls, t[q])}}

\* The literal lit, compared without case.
Lit(t, S, lit) ==
    {p + Len(lit) : p \in {q \in S :
        /\ q + Len(lit) - 1 <= Len(t)
        /\ \A k \in 1..Len(lit) : ToLower(t[q + k - 1]) = lit[k]}}

\* cls{lo,hi}
Rep(t, S, cls, lo, hi) ==
    {q \in 1..(Len(t) + 1) : \E p \in S :
        /\ q - p >= lo
        /\ q - p <= hi
        /\ \A k \in p..(q - 1) : InClass(cls, t[k])}

\* cls* and cls+ : no upper limit but the text's length.
Star(t, S, cls) == Rep(t, S, cls, 0, Len(t))
Plus(t, S, cls) == Rep(t, S, cls, 1, Len(t))

\* (?!lit) and (?![...]) : the positions of S the look-ahead lets through.
NotAheadLit(t, S, lit) == S \ {p \in S : Lit(t, {p}, lit) # {}}
NotAheadOne(t, S, cls) == S \ {p \in S : One(t, {p}, cls) # {}}

----------------------------------------------------------------------------
(* URL_REG_EXP, piece by piece.                                            *)

MIN_LINK_LENGTH_WITH_SPACE_AT_END == 4

URL_GROUP_IN_MATCH == 2

\* The longest host label and the longest TLD the expression admits.
MaxLabel == 63

\* (?:(?:(?:https?|ftp):)?\/\/)
Scheme(t, S) ==
    LET http  == Lit(t, S, <<"h","t","t","p">>)
        https == http \cup Lit(t, http, <<"s">>)
        ftp   == Lit(t, S, <<"f","t","p">>)
        colon == Lit(t, https \cup ftp, <<":">>)
    IN  Lit(t, S \cup colon, <<"/","/">>)

\* (?:\S+(?::\S*)?@)?
UserInfo(t, S) ==
    LET user == Plus(t, S, "nonspace")
        pass == Star(t, Lit(t, user, <<":">>), "nonspace")
    IN  S \cup Lit(t, user \cup pass, <<"@">>)

\* Mutant of the first octet: 1..255, as far as 25[0-5].
FirstOctet_UpTo255(t, S) ==
    LET d19 == One(t, S, "1-9")
    IN  d19
          \cup One(t, d19, "digit")
          \cup One(t, One(t, Lit(t, S, <<"1">>), "digit"), "digit")
          \cup One(t, One(t, Lit(t, S, <<"2">>), "0-4"), "digit")
          \cup One(t, Lit(t, S, <<"2","5">>), "0-5")

\* (?:[1-9]\d?|1\d\d|2[01]\d|22[0-3])
FirstOctet(t, S) ==
    LET d19 == One(t, S, "1-9")
    IN  d19
          \cup One(t, d19, "digit")
          \cup One(t, One(t, Lit(t, S, <<"1">>), "digit"), "digit")
          \cup One(t, One(t, Lit(t, S, <<"2">>), "0-1"), "digit")
          \cup One(t, Lit(t, S, <<"2","2">>), "0-3")

\* (?:1?\d{1,2}|2[0-4]\d|25[0-5])
MiddleOctet(t, S) ==
    Rep(t, S \cup Lit(t, S, <<"1">>), "digit", 1, 2)
      \cup One(t, One(t, Lit(t, S, <<"2">>), "0-4"), "digit")
      \cup One(t, Lit(t, S, <<"2","5">>), "0-5")

\* (?:[1-9]\d?|1\d\d|2[0-4]\d|25[0-4])
LastOctet(t, S) ==
    LET d19 == One(t, S, "1-9")
    IN  d19
          \cup One(t, d19, "digit")
          \cup One(t, One(t, Lit(t, S, <<"1">>), "digit"), "digit")
          \cup One(t, One(t, Lit(t, S, <<"2">>), "0-4"), "digit")
          \cup One(t, Lit(t, S, <<"2","5">>), "0-4")

\* The dotted IP address: first octet, (?:\.middle){2}, (?:\.last).
IpAddress(t, S) ==
    LET o1 == FirstOctet(t, S)
        o2 == MiddleOctet(t, Lit(t, o1, <<".">>))
        o3 == MiddleOctet(t, Lit(t, o2, <<".">>))
    IN  LastOctet(t, Lit(t, o3, <<".">>))

\* [-_a-z0-9¡-￿]{1,63}\.
LabelDot(t, S) == Lit(t, Rep(t, S, "host", 1, MaxLabel), <<".">>)

\* (?:[-_a-z0-9¡-￿]{1,63}\.)+
RECURSIVE Labels(_, _)
Labels(t, S) ==
    LET next == LabelDot(t, S)
    IN  IF next = {} THEN {} ELSE next \cup Labels(t, next)

\* ((?![-_])(?:[-_a-z0-9¡-￿]{1,63}\.))+
RECURSIVE GuardedLabels(_, _)
GuardedLabels(t, S) ==
    LET next == LabelDot(t, NotAheadOne(t, S, "dashes"))
    IN  IF next = {} THEN {} ELSE next \cup GuardedLabels(t, next)

\* (?:[a-z¡-￿]{2,63})
Tld(t, S) == Rep(t, S, "tld", 2, MaxLabel)

\* ( ((?!www\.)|(www\.)) (?![-_]) (?:label\.)+ tld )
DomainName(t, S) ==
    LET www  == <<"w","w","w",".">>
        pre  == NotAheadLit(t, S, www) \cup Lit(t, S, www)
    IN  Tld(t, Labels(t, NotAheadOne(t, pre, "dashes")))

\* (?::\d{2,5})?
Port(t, S) == S \cup Rep(t, Lit(t, S, <<":">>), "digit", 2, 5)

\* (?:[/?#]\S*)?
ResourcePath(t, S) == S \cup Star(t, One(t, S, "pathstart"), "nonspace")

\* The host: the dotted IP address or the domain name.
Host(t, S) == IpAddress(t, S) \cup DomainName(t, S)

\* a. Full form.
FullForm(t, S) == ResourcePath(t, Port(t, Host(t, UserInfo(t, Scheme(t, S)))))

\* Mutant of the short form: the prefix may be left out.
ShortForm_OptionalPrefix(t, S) ==
    LET www  == One(t, Lit(t, S, <<"w","w","w">>), "any")
        user == Lit(t, Plus(t, S, "nonspace"), <<"@">>)
    IN  Tld(t, GuardedLabels(t, S \cup www \cup user))

\* b. Short form: (www.|(\S+@)) then the guarded labels and the TLD.  The
\* dot of `www.` is not escaped, so it stands for any character.
ShortForm(t, S) ==
    LET www  == One(t, Lit(t, S, <<"w","w","w">>), "any")
        user == Lit(t, Plus(t, S, "nonspace"), <<"@">>)
    IN  Tld(t, GuardedLabels(t, www \cup user))

\* Group 2 followed by `$`: the whole of t is a detected URL.
UrlBody(t) == (Len(t) + 1) \in (FullForm(t, {1}) \cup ShortForm(t, {1}))

\* Mutant of group 1: group 2 may start anywhere.
GroupStarts_Anywhere(text) ==
    {g \in 0..Len(text) : UrlBody(SubSeq(text, g + 1, Len(text)))}

\* Group 1, (^|\s): group 2 may start at g (0-based) when g is the start
\* of the text or follows a white space.
GroupStarts(text) ==
    {g \in 0..Len(text) :
        /\ g = 0 \/ InClass("space", text[g])
        /\ UrlBody(SubSeq(text, g + 1, Len(text)))}

SetMin(S) == CHOOSE x \in S : \A y \in S : x <= y

\* What getUrlAtTextEnd returns for no match.
NoUrl == << >>

\* URL_REG_EXP.exec( text ): the engine tries the start indices from the
\* left, so the match is the one with the least start; the result is
\* match[ URL_GROUP_IN_MATCH ].
MatchGroup(text, starts) ==
    IF starts = {}
      THEN NoUrl
      ELSE SubSeq(text, SetMin(starts) + 1, Len(text))

getUrlAtTextEnd(text) == MatchGroup(text, GroupStarts(text))

\* Mutant: the character before the last is not looked at.
isSingleSpaceAtTheEnd_AnySpaces(text) ==
    /\ Len(text) > MIN_LINK_LENGTH_WITH_SPACE_AT_END
    /\ text[Len(text)] = " "

isSingleSpaceAtTheEnd(text) ==
    /\ Len(text) > MIN_LINK_LENGTH_WITH_SPACE_AT_END
    /\ text[Len(text)] = " "
    /\ text[Len(text) - 1] # " "

----------------------------------------------------------------------------
(* The document.  A document is a sequence of blocks; a block is an        *)
(* element holding a sequence of nodes, each a character of text or a      *)
(* softBreak element.  Offsets count nodes: offset o lies after node o.    *)

VARIABLES
    doc,                \* the blocks of the document
    caret,              \* the collapsed selection: [block, offset]
    isEnabled,          \* AutoLink#isEnabled
    watcherIsEnabled,   \* TextWatcher#isEnabled, bound to isEnabled
    defaultProtocol,    \* config 'link.defaultProtocol'
    undoOnBackspace,    \* the request Delete#requestUndoOnBackspace leaves
    edits,              \* how many edits of the document were made
    last,               \* the last operation and what its handlers did
    probe               \* a text given to the text functions, and what they returned

vars == <<doc, caret, isEnabled, watcherIsEnabled, defaultProtocol,
          undoOnBackspace, edits, last, probe>>

\* No linkHref attribute.
NoHref == << >>

\* No 'link.defaultProtocol' configured.
NoProtocol == << >>

TextNode(c, href) == [kind |-> "$text", data |-> c, linkHref |-> href]

SoftBreak == [kind |-> "softBreak", data |-> "", linkHref |-> NoHref]

\* name: the element's name; outer: the name of the element's own parent;
\* allowsLink: what the schema answers for linkHref on text of the element.
Block(name, outer, allowsLink, nodes) ==
    [name |-> name, outer |-> outer, allowsLink |-> allowsLink, nodes |-> nodes]

Plain(text) == [i \in 1..Len(text) |-> TextNode(text[i], NoHref)]

\* text with the characters from+1..Len(text) carrying linkHref = href
LinkedFrom(text, from, href) ==
    [i \in 1..Len(text) |-> TextNode(text[i], IF i > from THEN href ELSE NoHref)]

Range(b, s, e) == [block |-> b, start |-> s, end |-> e]

Position(b, o) == [block |-> b, offset |-> o]

SetMax(S) == CHOOSE x \in S : \A y \in S : x >= y

\* The text of a run of nodes.
DataOf(nodes, s, e) == [i \in 1..(e - s) |-> nodes[s + i].data]

\* getLastTextLine( range, model ): the text after the last item of the
\* range that is no text, and the range from there to the range's end.
getLastTextLine(d, range) ==
    LET nodes  == d[range.block].nodes
        others == {k \in (range.start + 1)..range.end : nodes[k].kind # "$text"}
        start  == IF others = {} THEN range.start ELSE SetMax(others)
    IN  [text  |-> DataOf(nodes, start, range.end),
         range |-> Range(range.block, start, range.end)]

\* position.parent.previousSibling: 0 stands for none.  The blocks whose
\* parent is a codeBlock are the children of one codeBlock element, which
\* is the last child of the root.
previousSibling(d, b) ==
    IF b > 1 /\ d[b - 1].outer = d[b].outer THEN b - 1 ELSE 0

\* position.nodeAfter: the node right after the position.
NoNode == [kind |-> "none", data |-> "", linkHref |-> NoHref]

nodeAfter(d, b, o) == IF o < Len(d[b].nodes) THEN d[b].nodes[o + 1] ELSE NoNode

\* writer.setAttribute( 'linkHref', url, range )
setAttribute(d, url, range) ==
    [d EXCEPT ![range.block].nodes =
        [i \in 1..Len(@) |->
            IF i > range.start /\ i <= range.end /\ @[i].kind = "$text"
              THEN [@[i] EXCEPT !.linkHref = url]
              ELSE @[i]]]

\* model.schema.checkAttributeInSelection over a range that is not
\* collapsed: some item of the range admits the attribute.
checkAttributeInSelection(d, range) ==
    \E i \in (range.start + 1)..range.end :
        d[range.block].nodes[i].kind = "$text" /\ d[range.block].allowsLink

----------------------------------------------------------------------------
(* utils.js                                                                *)

Mailto == <<"m","a","i","l","t","o",":">>

\* PROTOCOL_REG_EXP: the link starts with word characters and a colon, or
\* with a character that is no word character.
linkHasProtocol(link) ==
    \/ Lit(link, Plus(link, {1}, "word"), <<":">>) # {}
    \/ One(link, {1}, "nonword") # {}

\* An e-mail address: user@ and a domain name, the whole link.
IsEmail(link) ==
    (Len(link) + 1) \in
        Tld(link, GuardedLabels(link, Lit(link, Plus(link, {1}, "nonspace"), <<"@">>)))

WithProtocol(link, protocol) ==
    IF link # << >> /\ protocol # NoProtocol /\ ~linkHasProtocol(link)
      THEN protocol \o link
      ELSE link

addLinkProtocolIfApplicable(link, protocol) ==
    WithProtocol(link, IF IsEmail(link) THEN Mailto ELSE protocol)

----------------------------------------------------------------------------
(* The handlers.  They pass along the editor's state as a record m:        *)
(*   doc, caret, isEnabled, watcherIsEnabled, undoOnBackspace, pending     *)
(*   (the model's queue of changes not yet run) and trace, the sequence    *)
(*   of what the handlers did, in order.                                   *)

Event(ev, isTyping, url, range) ==
    [ev |-> ev, isTyping |-> isTyping, url |-> url, range |-> range]

Log(m, ev, isTyping, url, range) ==
    [m EXCEPT !.trace = Append(@, Event(ev, isTyping, url, range))]

isLinkAllowedOnRange(d, range) == checkAttributeInSelection(d, range)

\* Mutants of linkIsAlreadySet: it never finds a link; it looks at the node
\* after the range's end.
linkIsAlreadySet_Never(d, range) == FALSE

linkIsAlreadySet_AtRangeEnd(d, range) ==
    LET item == nodeAfter(d, range.block, range.end)
    IN  item # NoNode /\ item.linkHref # NoHref

linkIsAlreadySet(d, range) ==
    LET item == nodeAfter(d, range.block, range.start)
    IN  item # NoNode /\ item.linkHref # NoHref

\* Mutant of the binding: the watcher stays enabled.
BoundIsEnabled_AlwaysOn(enabled) == TRUE

\* The plugin's this.isEnabled = ... ; watcher.bind( 'isEnabled' ).to( this )
\* hands every value on to the watcher.
BoundIsEnabled(enabled) == enabled

\* selection.on( 'change:range' ): the plugin is disabled while the
\* selection's anchor lies in a code block.
OnChangeRange(d, pos) == d[pos.block].name # "codeBlock"

\* model.enqueueChange( writer => ... ): the change waits in the model's
\* queue of pending changes until the changes before it are done.
_persistAutoLink(m, url, range) ==
    [m EXCEPT !.pending = Append(@, [url |-> url, range |-> range])]

\* Mutant of the conditions of _applyAutoLink: the schema is not asked.
ApplyFullUrl_IgnoresSchema(m, fullUrl, range) ==
    IF \/ ~m.isEnabled
       \/ ~linkHasProtocol(fullUrl)
       \/ linkIsAlreadySet(m.doc, range)
      THEN m
      ELSE _persistAutoLink(m, fullUrl, range)

\* Mutant of the conditions of _applyAutoLink: isEnabled is not looked at.
ApplyFullUrl_IgnoresIsEnabled(m, fullUrl, range) ==
    IF \/ ~isLinkAllowedOnRange(m.doc, range)
       \/ ~linkHasProtocol(fullUrl)
       \/ linkIsAlreadySet(m.doc, range)
      THEN m
      ELSE _persistAutoLink(m, fullUrl, range)

\* The part of _applyAutoLink that follows the normalization of the URL.
ApplyFullUrl(m, fullUrl, range) ==
    IF \/ ~m.isEnabled
       \/ ~isLinkAllowedOnRange(m.doc, range)
       \/ ~linkHasProtocol(fullUrl)
       \/ linkIsAlreadySet(m.doc, range)
      THEN m
      ELSE _persistAutoLink(m, fullUrl, range)

_applyAutoLink(m, url, range) ==
    ApplyFullUrl(Log(m, "_applyAutoLink", FALSE, url, range),
                 addLinkProtocolIfApplicable(url, defaultProtocol), range)

\* The callback given to the TextWatcher: the URL to report, or none.
WatcherCallback(text) ==
    IF ~isSingleSpaceAtTheEnd(text)
      THEN NoUrl
      ELSE getUrlAtTextEnd(SubSeq(text, 1, Len(text) - 1))

\* Mutants of the matched:data listener: the batch is not looked at; the
\* link's end is the range's end.
OnMatchedData_AnyBatch(m, isTyping, range, url) ==
    LET linkEnd   == range.end - 1
        linkStart == linkEnd - Len(url)
    IN  _applyAutoLink(m, url, Range(range.block, linkStart, linkEnd))

OnMatchedData_IncludesSpace(m, isTyping, range, url) ==
    IF ~isTyping
      THEN m
      ELSE LET linkEnd   == range.end
               linkStart == linkEnd - Len(url)
           IN  _applyAutoLink(m, url, Range(range.block, linkStart, linkEnd))

\* watcher.on( 'matched:data' ): range.end is the caret, after the space.
OnMatchedData(m, isTyping, range, url) ==
    IF ~isTyping
      THEN m
      ELSE LET linkEnd   == range.end - 1
               linkStart == linkEnd - Len(url)
           IN  _applyAutoLink(m, url, Range(range.block, linkStart, linkEnd))

\* The TextWatcher on the document's change:data: while it is enabled it
\* tests the text of the line before the caret and fires matched:data with
\* the batch of the change.
FireMatched(m, isTyping, range, url) ==
    IF ~m.watcherIsEnabled \/ url = NoUrl
      THEN m
      ELSE OnMatchedData(Log(m, "matched:data", isTyping, url, range), isTyping, range, url)

EvaluateTextBeforeSelection(m, isTyping, line) ==
    FireMatched(m, isTyping, line.range, WatcherCallback(line.text))

TextWatcherOnChangeData(m, isTyping) ==
    EvaluateTextBeforeSelection(m, isTyping,
        getLastTextLine(m.doc, Range(m.caret.block, 0, m.caret.offset)))

\* Mutant: the plugin listens to every matched event of the watcher.
OnMatchedSelection_AsData(m, range, url) == OnMatchedData(m, TRUE, range, url)

\* The plugin has no listener for matched:selection: watcher.on is given
\* 'matched:data' alone.
OnMatchedSelection(m, range, url) == m

\* The TextWatcher on the selection's change:range: while it is enabled it
\* tests the text of the line before the caret and fires matched:selection.
FireMatchedSelection(m, range, url) ==
    IF ~m.watcherIsEnabled \/ url = NoUrl
      THEN m
      ELSE OnMatchedSelection(Log(m, "matched:selection", FALSE, url, range), range, url)

EvaluateTextOnSelection(m, line) ==
    FireMatchedSelection(m, line.range, WatcherCallback(line.text))

TextWatcherOnChangeRange(m) ==
    EvaluateTextOnSelection(m,
        getLastTextLine(m.doc, Range(m.caret.block, 0, m.caret.offset)))

\* Mutants of the change of _persistAutoLink: its batch is a typing batch;
\* undo on backspace is asked for before the attribute is set.
RECURSIVE RunPendingChanges_TypingBatch(_)
RunPendingChanges_TypingBatch(m) ==
    IF m.pending = << >>
      THEN m
      ELSE LET change  == Head(m.pending)
               set     == [Log(m, "setAttribute", FALSE, change.url, change.range)
                              EXCEPT !.doc = setAttribute(m.doc, change.url, change.range),
                                     !.undoOnBackspace = FALSE,
                                     !.pending = Tail(@)]
               watched == TextWatcherOnChangeData(set, TRUE)
           IN  RunPendingChanges_TypingBatch(
                   [Log(watched, "requestUndoOnBackspace", FALSE, change.url, change.range)
                       EXCEPT !.undoOnBackspace = TRUE])

RECURSIVE RunPendingChanges_UndoFirst(_)
RunPendingChanges_UndoFirst(m) ==
    IF m.pending = << >>
      THEN m
      ELSE LET change  == Head(m.pending)
               asked   == [Log(m, "requestUndoOnBackspace", FALSE, change.url, change.range)
                              EXCEPT !.undoOnBackspace = TRUE]
               set     == [Log(asked, "setAttribute", FALSE, change.url, change.range)
                              EXCEPT !.doc = setAttribute(m.doc, change.url, change.range),
                                     !.undoOnBackspace = FALSE,
                                     !.pending = Tail(@)]
           IN  RunPendingChanges_UndoFirst(TextWatcherOnChangeData(set, FALSE))

\* The queued changes of _persistAutoLink, run in order.  The attribute is
\* set by a batch that is no typing batch; the document's change events
\* follow: the Delete plugin drops an earlier request and the watcher looks
\* at the text again.  Then the nested change asks for undo on backspace.
RECURSIVE RunPendingChanges(_)
RunPendingChanges(m) ==
    IF m.pending = << >>
      THEN m
      ELSE LET change  == Head(m.pending)
               set     == [Log(m, "setAttribute", FALSE, change.url, change.range)
                              EXCEPT !.doc = setAttribute(m.doc, change.url, change.range),
                                     !.undoOnBackspace = FALSE,
                                     !.pending = Tail(@)]
               watched == TextWatcherOnChangeData(set, FALSE)
           IN  RunPendingChanges(
                   [Log(watched, "requestUndoOnBackspace", FALSE, change.url, change.range)
                       EXCEPT !.undoOnBackspace = TRUE])

\* The part of _checkAndApplyAutoLinkOnRange that follows the match.
ApplyOnLine(m, range, url) ==
    IF url # NoUrl
      THEN _applyAutoLink(m, url, Range(range.block, range.end - Len(url), range.end))
      ELSE m

CheckLine(m, line) == ApplyOnLine(m, line.range, getUrlAtTextEnd(line.text))

_checkAndApplyAutoLinkOnRange(m, rangeToCheck) ==
    CheckLine(m, getLastTextLine(m.doc, rangeToCheck))

\* Mutant of the enter listener: the caret's own block is checked.
OnEnterExecute_OwnBlock(m) ==
    _checkAndApplyAutoLinkOnRange(m,
        Range(m.caret.block, 0, Len(m.doc[m.caret.block].nodes)))

\* enterCommand.on( 'execute' )
OnEnterExecute(m) ==
    LET prev == previousSibling(m.doc, m.caret.block)
    IN  IF prev = 0
          THEN m
          ELSE _checkAndApplyAutoLinkOnRange(m, Range(prev, 0, Len(m.doc[prev].nodes)))

\* Mutant of the shiftEnter listener: the range checked ends at the caret.
OnShiftEnterExecute_IncludesBreak(m) ==
    _checkAndApplyAutoLinkOnRange(m, Range(m.caret.block, 0, m.caret.offset))

\* shiftEnterCommand.on( 'execute' )
OnShiftEnterExecute(m) ==
    _checkAndApplyAutoLinkOnRange(m, Range(m.caret.block, 0, m.caret.offset - 1))

----------------------------------------------------------------------------
(* Bounds and the documents the editor is loaded with.                     *)

\* How many edits (typed or inserted characters, Enter, Shift+Enter) a
\* behaviour makes.
MaxEdits == 2

Slashes  == <<"/","/","a",".","b","c">>            \* //a.bc
Worded   == <<"x"," ","/","/","a",".","b","c">>    \* x //a.bc
Www      == <<"w","w","w",".","a",".","b","c">>    \* www.a.bc
WwwX     == <<"w","w","w","x","a",".","b","c">>    \* wwwxa.bc
Bare     == <<"a","b",".","c","d">>                \* ab.cd
Email    == <<"u","@","a",".","b","c">>            \* u@a.bc
Other    == <<"x",":">>                            \* the href of a link made by hand
Https    == <<"h","t","t","p","s",":","/","/">>

InitDocs ==
    { <<Block("paragraph", "$root", TRUE, Plain(Slashes))>>,
      <<Block("paragraph", "$root", TRUE, Plain(Worded))>>,
      <<Block("paragraph", "$root", TRUE, Plain(Www))>>,
      <<Block("paragraph", "$root", TRUE, Plain(WwwX))>>,
      <<Block("paragraph", "$root", TRUE, Plain(Bare))>>,
      <<Block("paragraph", "$root", TRUE, Plain(Email))>>,
      <<Block("paragraph", "$root", FALSE, Plain(Slashes))>>,
      <<Block("paragraph", "$root", TRUE, LinkedFrom(Slashes, 0, Other))>>,
      <<Block("paragraph", "$root", TRUE, LinkedFrom(Slashes, 4, Other))>>,
      <<Block("codeBlock", "$root", FALSE, Plain(Slashes))>>,
      <<Block("codeBlock", "$root", TRUE, Plain(Slashes))>>,
      <<Block("paragraph", "codeBlock", TRUE, Plain(Slashes))>>,
      <<Block("codeBlock", "$root", TRUE, Plain(Slashes)),
        Block("paragraph", "$root", TRUE, Plain(Slashes))>> }

TypedChars == {" ", "c"}

InsertedChars == {" "}

\* A word ends or starts between the nodes o and o+1.
WordBoundary(nodes, o) ==
    \/ o = 0
    \/ o = Len(nodes)
    \/ nodes[o].kind # "$text" \/ nodes[o + 1].kind # "$text"
    \/ InClass("space", nodes[o].data) \/ InClass("space", nodes[o + 1].data)

\* Where the caret may be put: the word boundaries of every block.
CaretStops(d) ==
    {pos \in [block : 1..Len(d), offset : 0..SetMax({Len(d[b].nodes) : b \in 1..Len(d)})] :
        /\ pos.offset <= Len(d[pos.block].nodes)
        /\ WordBoundary(d[pos.block].nodes, pos.offset)}

----------------------------------------------------------------------------
(* The state machine.                                                      *)

\* No text is given to the text functions.
NoProbe ==
    [text |-> << >>, octets |-> << >>, fn |-> "none",
     url |-> NoUrl, flag |-> FALSE, trace |-> << >>]

Editor(d, pos, enabled, undo) ==
    [doc |-> d, caret |-> pos,
     isEnabled |-> enabled, watcherIsEnabled |-> BoundIsEnabled(enabled),
     undoOnBackspace |-> undo, trace |-> << >>, pending |-> << >>]

\* The editor after the handlers of operation op, which left the document
\* as mid before any handler of the plugin ran, ended in m.
Becomes(op, mid, m) ==
    /\ doc' = m.doc
    /\ caret' = m.caret
    /\ isEnabled' = m.isEnabled
    /\ watcherIsEnabled' = m.watcherIsEnabled
    /\ undoOnBackspace' = m.undoOnBackspace
    /\ last' = [op |-> op, mid |-> mid, trace |-> m.trace]
    /\ UNCHANGED <<defaultProtocol, probe>>

InsertAt(nodes, o, node) ==
    SubSeq(nodes, 1, o) \o <<node>> \o SubSeq(nodes, o + 1, Len(nodes))

\* Text put at the caret takes the linkHref of the link the caret is inside of.
HrefAt(d, pos) ==
    LET nodes == d[pos.block].nodes
    IN  IF /\ pos.offset > 0
           /\ pos.offset < Len(nodes)
           /\ nodes[pos.offset].linkHref = nodes[pos.offset + 1].linkHref
          THEN nodes[pos.offset].linkHref
          ELSE NoHref

InsertText(d, pos, c) ==
    [d EXCEPT ![pos.block].nodes = InsertAt(@, pos.offset, TextNode(c, HrefAt(d, pos)))]

SplitBlock(d, pos) ==
    LET blk == d[pos.block]
    IN  SubSeq(d, 1, pos.block - 1)
          \o <<[blk EXCEPT !.nodes = SubSeq(blk.nodes, 1, pos.offset)],
               [blk EXCEPT !.nodes = SubSeq(blk.nodes, pos.offset + 1, Len(blk.nodes))]>>
          \o SubSeq(d, pos.block + 1, Len(d))

\* The editor after init() and afterInit(), loaded with a document: the
\* caret is at the document's start, no change:range has been seen yet and
\* isEnabled has the value a plugin starts with.
Init ==
    /\ doc \in InitDocs
    /\ caret = Position(1, 0)
    /\ isEnabled = TRUE
    /\ watcherIsEnabled = BoundIsEnabled(TRUE)
    /\ defaultProtocol \in {NoProtocol, Https}
    /\ undoOnBackspace = FALSE
    /\ edits = 0
    /\ last = [op |-> "init", mid |-> doc, trace |-> << >>]
    /\ probe = NoProbe

\* The user moves the caret: change:range reaches the plugin's listener,
\* then the watcher's; the document's change event drops a request for
\* undo on backspace.
SetSelection ==
    \E pos \in CaretStops(doc) :
        /\ pos # caret
        /\ Becomes("select", doc,
               RunPendingChanges(TextWatcherOnChangeRange(
                   Editor(doc, pos, OnChangeRange(doc, pos), FALSE))))
        /\ UNCHANGED edits

\* A character is put at the caret by a batch that is a typing batch or
\* not; the caret moves behind it (change:range), then change:data.
PutChar(op, c, isTyping) ==
    LET d1  == InsertText(doc, caret, c)
        pos == Position(caret.block, caret.offset + 1)
    IN  /\ edits < MaxEdits
        /\ edits' = edits + 1
        /\ Becomes(op, d1,
               RunPendingChanges(TextWatcherOnChangeData(
                   Editor(d1, pos, OnChangeRange(d1, pos), FALSE), isTyping)))

Type == \E c \in TypedChars : PutChar("type", c, TRUE)

Insert == \E c \in InsertedChars : PutChar("insert", c, FALSE)

\* The enter command splits the caret's block and puts the caret at the
\* start of the new block; then the plugin's listener runs.
Enter ==
    LET d1  == SplitBlock(doc, caret)
        pos == Position(caret.block + 1, 0)
    IN  /\ edits < MaxEdits
        /\ edits' = edits + 1
        /\ Becomes("enter", d1,
               RunPendingChanges(OnEnterExecute(TextWatcherOnChangeData(
                   Editor(d1, pos, OnChangeRange(d1, pos), FALSE), FALSE))))

\* The enter command runs and splits no block (the caret's element is a
\* limit element of the schema, or the command was run over a selection
\* of several blocks that left the caret at the start of the last one):
\* the caret's block stays as it is, the plugin's listener runs.
EnterNoSplit ==
    /\ Becomes("enter", doc,
           RunPendingChanges(OnEnterExecute(Editor(doc, caret, isEnabled, undoOnBackspace))))
    /\ UNCHANGED edits

\* The shiftEnter command puts a softBreak at the caret and the caret
\* behind it; then the plugin's listener runs.
ShiftEnter ==
    LET d1  == [doc EXCEPT ![caret.block].nodes = InsertAt(@, caret.offset, SoftBreak)]
        pos == Position(caret.block, caret.offset + 1)
    IN  /\ edits < MaxEdits
        /\ edits' = edits + 1
        /\ Becomes("shiftEnter", d1,
               RunPendingChanges(OnShiftEnterExecute(TextWatcherOnChangeData(
                   Editor(d1, pos, OnChangeRange(d1, pos), FALSE), FALSE))))

Next ==
    \/ SetSelection
    \/ Type
    \/ Insert
    \/ Enter
    \/ EnterNoSplit
    \/ ShiftEnter

Spec == Init /\ [][Next]_vars

----------------------------------------------------------------------------
(* The text functions on their own: a text is drawn, then getUrlAtTextEnd, *)
(* isSingleSpaceAtTheEnd or the typing path is applied to it.              *)

\* How many tokens a text is made of.
MaxTokens == 4

\* The greatest octet of a dotted address.
MaxOctet == 255

Tokens ==
    { <<"w","w","w">>, <<"w","w","w",".">>, <<"a",".","b","c">>, <<"/","/">>,
      <<"u","@">>, <<"x">>, <<" ">>, <<"\t">> }

\* The texts of at most n tokens.
RECURSIVE TokenTexts(_)
TokenTexts(n) ==
    IF n = 0
      THEN {<< >>}
      ELSE {t \o k : t \in TokenTexts(n - 1), k \in Tokens \cup {<< >>}}

DigitChars == <<"0","1","2","3","4","5","6","7","8","9">>

\* The decimal digits of n.
RECURSIVE Decimal(_)
Decimal(n) ==
    IF n < 10
      THEN <<DigitChars[n + 1]>>
      ELSE Decimal(n \div 10) \o <<DigitChars[(n % 10) + 1]>>

Dotted(o) ==
    Decimal(o[1]) \o <<".">> \o Decimal(o[2]) \o <<".">>
        \o Decimal(o[3]) \o <<".">> \o Decimal(o[4])

Schemes ==
    { <<"/","/">>,
      <<"h","t","t","p",":","/","/">>,
      <<"h","t","t","p","s",":","/","/">>,
      <<"f","t","p",":","/","/">> }

\* The values the second, third and fourth octet are drawn from.
OctetSamples == {0, 1, 168, MaxOctet}

Addresses ==
    {<<a, b, c, d>> : a \in 0..MaxOctet, b \in OctetSamples,
                      c \in OctetSamples, d \in OctetSamples}

Given(text, octets) == [NoProbe EXCEPT !.text = text, !.octets = octets]

TextInit ==
    /\ doc = <<Block("paragraph", "$root", TRUE, << >>)>>
    /\ caret = Position(1, 0)
    /\ isEnabled = TRUE
    /\ watcherIsEnabled = BoundIsEnabled(TRUE)
    /\ defaultProtocol = NoProtocol
    /\ undoOnBackspace = FALSE
    /\ edits = 0
    /\ last = [op |-> "init", mid |-> doc, trace |-> << >>]
    /\ probe \in {Given(t, << >>) : t \in TokenTexts(MaxTokens)}
                 \cup {Given(s \o Dotted(o), o) : s \in Schemes, o \in Addresses}

Applied(fn, url, flag, trace) ==
    /\ probe.fn = "none"
    /\ probe' = [probe EXCEPT !.fn = fn, !.url = url, !.flag = flag, !.trace = trace]
    /\ UNCHANGED <<doc, caret, isEnabled, watcherIsEnabled, defaultProtocol,
                   undoOnBackspace, edits, last>>

CallGetUrlAtTextEnd ==
    Applied("getUrlAtTextEnd", getUrlAtTextEnd(probe.text), FALSE, << >>)

CallIsSingleSpaceAtTheEnd ==
    /\ probe.octets = << >>
    /\ Applied("isSingleSpaceAtTheEnd", NoUrl, isSingleSpaceAtTheEnd(probe.text), << >>)

\* The last character of the text is typed behind the rest of it, in a
\* paragraph where a link may be written.
TypeLastCharacter ==
    /\ probe.octets = << >>
    /\ probe.text # << >>
    /\ Applied("type", WatcherCallback(probe.text), FALSE,
               RunPendingChanges(TextWatcherOnChangeData(
                   Editor(<<Block("paragraph", "$root", TRUE, Plain(probe.text))>>,
                          Position(1, Len(probe.text)), TRUE, FALSE),
                   TRUE)).trace)

TextNext ==
    \/ CallGetUrlAtTextEnd
    \/ CallIsSingleSpaceAtTheEnd
    \/ TypeLastCharacter

TextSpec == TextInit /\ [][TextNext]_vars

----------------------------------------------------------------------------
(* What the last operation did, read off its trace.                        *)

EventsOf(ev) == {i \in 1..Len(last.trace) : last.trace[i].ev = ev}

Calls == EventsOf("_applyAutoLink")

Writes == EventsOf("setAttribute")

Matches == EventsOf("matched:data")

UndoRequests == EventsOf("requestUndoOnBackspace")

\* The call i of _applyAutoLink went on to _persistAutoLink.
Committed(i) == (i + 1) \in Writes /\ last.trace[i + 1].range = last.trace[i].range

\* The nodes of range r in document d.
NodesOf(d, r) == {d[r.block].nodes[k] : k \in (r.start + 1)..r.end}

\* Some node of the document carries linkHref in d and another (or none) in e.
SameLinks(d, e) ==
    /\ Len(d) = Len(e)
    /\ \A b \in 1..Len(d) :
          /\ Len(d[b].nodes) = Len(e[b].nodes)
          /\ \A k \in 1..Len(d[b].nodes) : d[b].nodes[k].linkHref = e[b].nodes[k].linkHref

\* The caret's element, or the element that holds it, is a code block.
CaretInCodeBlock == doc[caret.block].name = "codeBlock" \/ doc[caret.block].outer = "codeBlock"

\* The text of the caret's block from the last softBreak before offset o up to o.
LineBefore(d, b, o) ==
    LET breaks == {k \in 1..o : d[b].nodes[k].kind # "$text"}
        from   == IF breaks = {} THEN 0 ELSE SetMax(breaks)
    IN  [i \in 1..(o - from) |-> d[b].nodes[from + i].data]

----------------------------------------------------------------------------
(* C1 *)

\* The four conditions of _applyAutoLink for the call c, taken from the
\* document as it was when the call was made.
Eligible(c) ==
    /\ isEnabled
    /\ last.mid[c.range.block].allowsLink
    /\ linkHasProtocol(addLinkProtocolIfApplicable(c.url, defaultProtocol))
    /\ last.mid[c.range.block].nodes[c.range.start + 1].linkHref = NoHref

\* C1: a call of _applyAutoLink(url, range) writes linkHref over range if
\* and only if the plugin is enabled, the schema admits linkHref on the
\* range, the normalized URL has a protocol and the node after range.start
\* carries no linkHref; otherwise the document stays as it was.
C1_CommitIffEligible ==
    \A i \in Calls :
        LET c == last.trace[i]
        IN  IF Eligible(c)
              THEN /\ Committed(i)
                   /\ \A n \in NodesOf(doc, c.range) :
                         n.linkHref = addLinkProtocolIfApplicable(c.url, defaultProtocol)
              ELSE /\ Writes = {}
                   /\ doc = last.mid

C1_Witness ==
    /\ last.op = "type"
    /\ \E i \in Calls : Committed(i) /\ Eligible(last.trace[i])

----------------------------------------------------------------------------
(* C2 *)

\* C2: on the typing path a match leads to a call of _applyAutoLink only
\* when its batch is a typing batch; a match of any other batch is followed
\* by no call, and an insertion that is no typing writes no link attribute
\* and asks for no undo on backspace.
C2_OnlyTypingBatchesCommit ==
    /\ \A i \in Matches : ~last.trace[i].isTyping => (i + 1) \notin Calls
    /\ last.op \in {"type", "insert"} =>
          \A i \in Calls : (i - 1) \in Matches /\ last.trace[i - 1].isTyping
    /\ last.op = "insert" =>
          /\ Writes = {}
          /\ UndoRequests = {}
          /\ ~undoOnBackspace
          /\ doc = last.mid

C2_Witness == last.op = "insert" /\ Matches # {}

----------------------------------------------------------------------------
(* C3 *)

\* The character just put at the caret is a space that follows a
\* detectable URL.
LinkCompletingSpace ==
    LET text == LineBefore(last.mid, caret.block, caret.offset)
    IN  /\ Len(text) > 1
        /\ text[Len(text)] = " "
        /\ getUrlAtTextEnd(SubSeq(text, 1, Len(text) - 1)) # NoUrl

\* C3: a link-completing space typed while the caret is inside a code
\* block applies no link.
C3_NoLinkTypedInCodeBlock ==
    (last.op = "type" /\ CaretInCodeBlock /\ LinkCompletingSpace) =>
        Writes = {} /\ SameLinks(doc, last.mid)

----------------------------------------------------------------------------
(* C4 *)

\* C4 as claimed: no character of a committed range carried linkHref
\* before the commit.
C4_CommittedRangeHadNoLink ==
    \A w \in Writes :
        \A n \in NodesOf(last.mid, last.trace[w].range) : n.linkHref = NoHref

\* C4 as amended: the node right after the start of a committed range
\* carried no linkHref before the commit.
C4_RangeStartHadNoLink ==
    \A w \in Writes :
        LET r == last.trace[w].range
        IN  last.mid[r.block].nodes[r.start + 1].linkHref = NoHref

C4_Witness ==
    \E w \in Writes :
        \E n \in NodesOf(last.mid, last.trace[w].range) : n.linkHref # NoHref

----------------------------------------------------------------------------
(* C5 *)

\* C5: a call of _applyAutoLink on a range whose start carries linkHref
\* writes nothing and leaves the document as it was; and after a commit,
\* the same call made again writes nothing and leaves the document as the
\* first call left it.
C5_Idempotent ==
    \A i \in Calls :
        LET c     == last.trace[i]
            again == RunPendingChanges(_applyAutoLink(
                         Editor(doc, caret, isEnabled, undoOnBackspace), c.url, c.range))
        IN  /\ last.mid[c.range.block].nodes[c.range.start + 1].linkHref # NoHref =>
                  Writes = {} /\ doc = last.mid
            /\ Committed(i) =>
                  /\ again.doc = doc
                  /\ \A k \in 1..Len(again.trace) : again.trace[k].ev # "setAttribute"

C5_Witness ==
    \E i \in Calls :
        LET c == last.trace[i]
        IN  /\ last.mid[c.range.block].nodes[c.range.start + 1].linkHref = Other
            /\ doc[c.range.block].nodes[c.range.start + 1].linkHref = Other

----------------------------------------------------------------------------
(* C6 *)

\* C6: a committed range is as long as the matched text and holds the
\* matched characters.  On the typing path it ends right before the typed
\* space, which the commit leaves as it was; on the Enter path it ends at
\* the end of the previous block, on the Shift+Enter path right before
\* the softBreak.
C6_RangeCoversMatchedText ==
    \A i \in Calls : Committed(i) =>
        LET c == last.trace[i]
            r == c.range
        IN  /\ r.end - r.start = Len(c.url)
            /\ DataOf(last.mid[r.block].nodes, r.start, r.end) = c.url
            /\ last.op = "type" =>
                  /\ r.block = caret.block
                  /\ r.end = caret.offset - 1
                  /\ doc[r.block].nodes[caret.offset].data = " "
                  /\ doc[r.block].nodes[caret.offset] = last.mid[r.block].nodes[caret.offset]
            /\ last.op = "enter" => r.end = Len(doc[r.block].nodes)
            /\ last.op = "shiftEnter" =>
                  /\ r.end = caret.offset - 1
                  /\ doc[r.block].nodes[caret.offset] = SoftBreak

\* A commit on the typing path whose normalized URL is longer than the
\* matched text.
C6_Witness ==
    /\ last.op = "type"
    /\ \E i \in Calls :
          /\ Committed(i)
          /\ Len(last.trace[i + 1].url) > Len(last.trace[i].url)
          /\ doc[caret.block].nodes[caret.offset].linkHref = NoHref

----------------------------------------------------------------------------
(* C7 *)

\* A space was typed behind text: the line before the caret is text and
\* the space, in a block where a link may be written.
TypedSpaceAfter(text) ==
    /\ last.op = "type"
    /\ LineBefore(last.mid, caret.block, caret.offset) = text \o <<" ">>
    /\ \A k \in 1..caret.offset : last.mid[caret.block].nodes[k].linkHref = NoHref
    /\ last.mid[caret.block].allowsLink
    /\ ~CaretInCodeBlock
    /\ defaultProtocol = Https

LinkedOver(text, href) ==
    /\ Writes # {}
    /\ \A k \in 1..Len(text) :
          doc[caret.block].nodes[caret.offset - 1 - Len(text) + k] = TextNode(text[k], href)

----------------------------------------------------------------------------
(* C8 *)

\* The block before the caret's block under the same parent; 0 for none.
BlockBefore == IF caret.block > 1 /\ doc[caret.block - 1].outer = doc[caret.block].outer
                 THEN caret.block - 1
                 ELSE 0

\* The text of the last line of block b as it was before the plugin's
\* handlers ran.
LastLineOf(b) == LineBefore(last.mid, b, Len(last.mid[b].nodes))

\* C8: after the enter command, with no block before the caret's block no
\* match is tried and nothing is written; otherwise _applyAutoLink is
\* called exactly when the last line of the block before ends in a URL,
\* with that URL, and a link written lies in that block and ends at its
\* end.  A URL that ends an eligible paragraph left by Enter is linked.
C8_EnterChecksPreviousBlock ==
    last.op = "enter" =>
        IF BlockBefore = 0
          THEN last.trace = << >> /\ doc = last.mid
          ELSE LET url == getUrlAtTextEnd(LastLineOf(BlockBefore))
               IN  /\ (Calls # {}) = (url # NoUrl)
                   /\ \A i \in Calls : last.trace[i].url = url
                   /\ \A w \in Writes :
                         LET r == last.trace[w].range
                         IN  /\ r.block = BlockBefore
                             /\ r.block # caret.block
                             /\ r.start >= 0
                             /\ r.end = Len(doc[BlockBefore].nodes)
                   /\ doc[caret.block] = last.mid[caret.block]
                   /\ (\E i \in Calls : Eligible(last.trace[i])) =>
                         \A k \in 1..Len(url) :
                             LET n == doc[BlockBefore].nodes[Len(doc[BlockBefore].nodes) - Len(url) + k]
                             IN  /\ n.data = url[k]
                                 /\ n.linkHref = addLinkProtocolIfApplicable(url, defaultProtocol)

C8_Witness ==
    /\ last.op = "enter"
    /\ BlockBefore # 0
    /\ doc[caret.block].nodes = << >>
    /\ Writes # {}
    /\ doc[BlockBefore].nodes[Len(doc[BlockBefore].nodes)].linkHref = Slashes

----------------------------------------------------------------------------
(* C9 *)

\* C9: after the shiftEnter command the text checked is the line that ends
\* one position before the caret: _applyAutoLink is called exactly when
\* that line ends in a URL, and a link written ends one position before
\* the caret, so the softBreak and all behind it stay as they were.
C9_ShiftEnterExcludesBreak ==
    last.op = "shiftEnter" =>
        LET url   == getUrlAtTextEnd(LineBefore(last.mid, caret.block, caret.offset - 1))
            nodes == doc[caret.block].nodes
        IN  /\ (Calls # {}) = (url # NoUrl)
            /\ \A i \in Calls : last.trace[i].url = url
            /\ \A w \in Writes :
                  LET r == last.trace[w].range
                  IN  /\ r.block = caret.block
                      /\ r.end = caret.offset - 1
                      /\ r.start = r.end - Len(url)
            /\ nodes[caret.offset] = SoftBreak
            /\ \A k \in caret.offset..Len(nodes) : nodes[k] = last.mid[caret.block].nodes[k]

C9_Witness ==
    /\ last.op = "shiftEnter"
    /\ Writes # {}
    /\ caret.offset < Len(doc[caret.block].nodes)
    /\ doc[caret.block].nodes[caret.offset - 1].linkHref # NoHref

----------------------------------------------------------------------------
(* C10 *)

\* C10: after a change of the selection's range the plugin is enabled if
\* and only if no ancestor of the caret is a code block.
C10_EnabledIffNoCodeBlockAncestor ==
    last.op \in {"select", "type", "insert", "shiftEnter"} =>
        (isEnabled = ~CaretInCodeBlock)

----------------------------------------------------------------------------
(* C11 *)

\* Document d is document e with linkHref = url on the nodes of range r
\* and on no other node.
WrittenOver(d, e, url, r) ==
    /\ Len(d) = Len(e)
    /\ \A b \in 1..Len(d) :
          /\ Len(d[b].nodes) = Len(e[b].nodes)
          /\ \A k \in 1..Len(d[b].nodes) :
                IF b = r.block /\ k > r.start /\ k <= r.end
                  THEN d[b].nodes[k] = TextNode(e[b].nodes[k].data, url)
                  ELSE d[b].nodes[k] = e[b].nodes[k]

\* C11: one edit (a character typed, Enter, Shift+Enter) leads to at most
\* one commit, which writes linkHref over the whole of its range and
\* nowhere else, or to none, and then the document stays as the edit left
\* it.  The change of the commit itself, seen by the watcher, is no typing
\* and is followed by no call of _applyAutoLink, so by no second commit.
C11_AtMostOneWholeCommit ==
    /\ Cardinality(Writes) <= 1
    /\ IF Writes = {}
         THEN doc = last.mid
         ELSE \A w \in Writes :
                  WrittenOver(doc, last.mid, last.trace[w].url, last.trace[w].range)
    /\ \A w \in Writes : \A i \in Matches :
          i > w => ~last.trace[i].isTyping /\ (i + 1) \notin Calls

\* The watcher saw the commit's own change while the text before the
\* caret still ended in the URL and one space.
C11_Witness ==
    /\ last.op = "type"
    /\ LinkCompletingSpace
    /\ \E w \in Writes : \E i \in Matches : i > w

----------------------------------------------------------------------------
(* C12 *)

\* C12: every commit is the write of linkHref followed by one request for
\* undo on backspace for the same change, with nothing but the watcher's
\* look at the text in between; no request comes without the write before
\* it; and when the handlers return the request stands, so that the next
\* backspace is answered by undo.
C12_WriteThenUndoRequest ==
    /\ Cardinality(UndoRequests) = Cardinality(Writes)
    /\ \A w \in Writes :
          \E u \in UndoRequests :
              /\ u > w
              /\ last.trace[u].range = last.trace[w].range
              /\ last.trace[u].url = last.trace[w].url
              /\ \A k \in (w + 1)..(u - 1) : last.trace[k].ev = "matched:data"
              /\ \A k \in (u + 1)..Len(last.trace) : last.trace[k].ev # "setAttribute"
    /\ \A u \in UndoRequests : \E w \in Writes : w < u
    /\ Writes # {} => undoOnBackspace

C12_Witness ==
    /\ last.op = "enter"
    /\ undoOnBackspace
    /\ \E w \in Writes : (w + 1) \in UndoRequests

----------------------------------------------------------------------------
(* C13 *)

\* Nothing was written and no undo on backspace was asked for.
Silent ==
    /\ doc = last.mid
    /\ SameLinks(doc, last.mid)
    /\ Writes = {}
    /\ UndoRequests = {}

\* The text the last operation's trigger looks at holds no URL.
NoMatchAtTrigger ==
    CASE last.op \in {"type", "insert"} ->
             WatcherCallback(LineBefore(last.mid, caret.block, caret.offset)) = NoUrl
      [] last.op = "enter" ->
             BlockBefore # 0 /\ getUrlAtTextEnd(LastLineOf(BlockBefore)) = NoUrl
      [] last.op = "shiftEnter" ->
             getUrlAtTextEnd(LineBefore(last.mid, caret.block, caret.offset - 1)) = NoUrl
      [] OTHER -> FALSE

\* C13: every way a trigger ends without a commit is silent: no match, the
\* plugin disabled, the schema against the attribute, a URL with no
\* protocol, the range's start linked already, a batch that is no typing,
\* Enter with no block before.  The document is as the edit left it, no
\* undo on backspace is asked for, and every range handed on is a range of
\* the document.
C13_RejectionsAreSilent ==
    /\ NoMatchAtTrigger => Silent /\ Calls = {}
    /\ last.op = "insert" => Silent
    /\ last.op = "enter" /\ BlockBefore = 0 => Silent
    /\ last.op # "init" /\ ~isEnabled => Silent
    /\ \A i \in Calls :
          LET c == last.trace[i]
          IN  /\ c.range.start >= 0
              /\ c.range.start < c.range.end
              /\ c.range.end <= Len(last.mid[c.range.block].nodes)
              /\ ~last.mid[c.range.block].allowsLink => Silent
              /\ ~linkHasProtocol(addLinkProtocolIfApplicable(c.url, defaultProtocol)) => Silent
              /\ last.mid[c.range.block].nodes[c.range.start + 1].linkHref # NoHref => Silent

\* A call that the schema alone turns down.
C13_Witness ==
    \E i \in Calls :
        LET c == last.trace[i]
        IN  /\ isEnabled
            /\ ~last.mid[c.range.block].allowsLink
            /\ linkHasProtocol(addLinkProtocolIfApplicable(c.url, defaultProtocol))
            /\ last.mid[c.range.block].nodes[c.range.start + 1].linkHref = NoHref
            /\ Silent

----------------------------------------------------------------------------
(* C14 *)

WwwDot == <<"w","w","w",".">>

EndsIn(text, lit) ==
    /\ Len(text) >= Len(lit)
    /\ SubSeq(text, Len(text) - Len(lit) + 1, Len(text)) = lit

StartsWith(text, lit) ==
    /\ Len(text) >= Len(lit)
    /\ SubSeq(text, 1, Len(lit)) = lit

\* url is the end of text, and what is before it ends in a white space
\* or is nothing.
SuffixAfterSpace(text, url) ==
    /\ Len(url) >= 1
    /\ EndsIn(text, url)
    /\ Len(url) = Len(text) \/ text[Len(text) - Len(url)] \in Whitespace

\* The `www.` that ends url lies in its resource path: behind a `/`, `?`
\* or `#` that follows a URL.
WwwDotInPath(url) ==
    \E k \in 1..(Len(url) - Len(WwwDot)) :
        /\ url[k] \in {"/", "?", "#"}
        /\ getUrlAtTextEnd(SubSeq(url, 1, k - 1)) # NoUrl

\* C14 as claimed: getUrlAtTextEnd returns none or the end of the text
\* that follows a white space or the text's start, and none for every
\* text that ends in `www.`.
C14_SuffixAndNeverWwwDot ==
    probe.fn = "getUrlAtTextEnd" =>
        /\ probe.url = NoUrl \/ SuffixAfterSpace(probe.text, probe.url)
        /\ EndsIn(probe.text, WwwDot) => probe.url = NoUrl

\* C14 as amended: getUrlAtTextEnd returns none or the end of the text
\* that follows a white space or the text's start; for a text that ends in
\* `www.` it returns none unless the `www.` lies in the resource path of a
\* full-form URL.
C14_SuffixAndNeverWwwDotHost ==
    probe.fn = "getUrlAtTextEnd" =>
        /\ probe.url = NoUrl \/ SuffixAfterSpace(probe.text, probe.url)
        /\ EndsIn(probe.text, WwwDot) /\ probe.url # NoUrl => WwwDotInPath(probe.url)
        /\ \A s \in Schemes \cup {<< >>} : EndsIn(probe.text, s \o WwwDot) /\ probe.url # NoUrl =>
              Len(probe.url) > Len(s \o WwwDot)

\* A URL found behind other text and a white space.
C14_Witness ==
    /\ probe.fn = "getUrlAtTextEnd"
    /\ probe.url # NoUrl
    /\ Len(probe.url) < Len(probe.text)
    /\ SuffixAfterSpace(probe.text, probe.url)

----------------------------------------------------------------------------
(* C15 *)

\* C15: a text with no `//` in it is matched only as `www.` and a host or
\* as user@ and a host.
C15_ShortFormIsWwwDotOrUser ==
    (/\ probe.fn = "getUrlAtTextEnd"
     /\ probe.url # NoUrl
     /\ \A k \in 1..(Len(probe.text) - 1) : SubSeq(probe.text, k, k + 1) # <<"/","/">>) =>
        \/ /\ StartsWith(probe.url, WwwDot)
           /\ (Len(probe.url) + 1) \in
                  Tld(probe.url, GuardedLabels(probe.url, {Len(WwwDot) + 1}))
        \/ IsEmail(probe.url)

----------------------------------------------------------------------------
(* C16 *)

\* C16: behind a scheme, the address 0.0.0.0 and every address whose first
\* octet is 224 or more are not matched; 192.168.1.1 is.
C16_AddressRange ==
    (probe.fn = "getUrlAtTextEnd" /\ probe.octets # << >>) =>
        /\ probe.octets = <<0, 0, 0, 0>> => probe.url = NoUrl
        /\ probe.octets[1] >= 224 => probe.url = NoUrl
        /\ probe.octets = <<192, 168, 1, 1>> => probe.url = probe.text

C16_Witness ==
    /\ probe.fn = "getUrlAtTextEnd"
    /\ probe.octets = <<224, 168, 1, 1>>
    /\ probe.url = NoUrl

----------------------------------------------------------------------------
(* C17 *)

\* C17: the watcher's isEnabled is the plugin's isEnabled in every state,
\* and a character put in while it is false raises no matched event and
\* no call of _applyAutoLink.
C17_WatcherMirrorsIsEnabled ==
    /\ watcherIsEnabled = isEnabled
    /\ (last.op \in {"type", "insert"} /\ ~watcherIsEnabled) =>
          /\ Matches = {}
          /\ Calls = {}
          /\ doc = last.mid

\* A link-completing space typed while the watcher is disabled.
C17_Witness ==
    /\ last.op = "type"
    /\ ~watcherIsEnabled
    /\ LinkCompletingSpace
    /\ WatcherCallback(LineBefore(last.mid, caret.block, caret.offset)) # NoUrl
    /\ last.mid[caret.block].allowsLink
    /\ last.trace = << >>

----------------------------------------------------------------------------
(* C18 *)

\* The text is longer than 4, ends in a space and has no space before it.
OneSpaceEndsLongText(text) ==
    /\ Len(text) > 4
    /\ text[Len(text)] = " "
    /\ text[Len(text) - 1] # " "

\* C18: isSingleSpaceAtTheEnd is true exactly for the texts longer than 4
\* whose last character is a space and whose last but one is none; on the
\* typing path a matched event is raised only for such a text, and then
\* exactly when the text without its last character ends in a URL.
C18_SingleSpaceGate ==
    /\ probe.fn = "isSingleSpaceAtTheEnd" =>
          (probe.flag = OneSpaceEndsLongText(probe.text))
    /\ probe.fn = "type" =>
          /\ ~OneSpaceEndsLongText(probe.text) =>
                probe.url = NoUrl /\ probe.trace = << >>
          /\ OneSpaceEndsLongText(probe.text) =>
                probe.url = getUrlAtTextEnd(SubSeq(probe.text, 1, Len(probe.text) - 1))
          /\ (probe.trace # << >>) = (probe.url # NoUrl)

\* A second space typed behind a URL and a space.
C18_Witness ==
    /\ probe.fn = "type"
    /\ EndsIn(probe.text, <<" ", " ">>)
    /\ getUrlAtTextEnd(SubSeq(probe.text, 1, Len(probe.text) - 2)) # NoUrl
    /\ probe.trace = << >>

----------------------------------------------------------------------------
(* C19 *)

\* C19: a change of the selection's range writes nothing, calls
\* _applyAutoLink not at all and asks for no undo on backspace; it leaves
\* isEnabled set from the caret's element.
C19_SelectionChangeCommitsNothing ==
    last.op = "select" =>
        /\ doc = last.mid
        /\ Calls = {}
        /\ Writes = {}
        /\ UndoRequests = {}
        /\ isEnabled = (doc[caret.block].name # "codeBlock")

\* The caret is put behind a URL that is not linked and one space.
C19_Witness ==
    /\ last.op = "select"
    /\ isEnabled
    /\ doc[caret.block].allowsLink
    /\ WatcherCallback(LineBefore(doc, caret.block, caret.offset)) # NoUrl
    /\ \A k \in 1..caret.offset : doc[caret.block].nodes[k].linkHref = NoHref
    /\ EventsOf("matched:selection") # {}

----------------------------------------------------------------------------
(* C20 *)

====
